---- MODULE Spec2Model ----
(***************************************************************************)
(* Model of the chinese-room-keyboard repository.                          *)
(*                                                                         *)
(*   symbols.py   SymbolGenerator (shape families, decoration, uniqueness  *)
(*                guard, bounded retry) and the batch driver               *)
(*                generate_multiple_symbols with the script entry point.   *)
(*   keyboard.py  SymbolKeyboard: asset loading, key mapping, event loop.  *)
(*                                                                         *)
(* Three specifications share the variables:                               *)
(*   Spec          the batch driver run (script or direct call)            *)
(*   SpecRender    _add_decoration applied to any well-formed shape        *)
(*   SpecKeyboard  keyboard start-up and event loop over an output folder  *)
(***************************************************************************)
EXTENDS Integers, Sequences, FiniteSets, TLC

(* ------------------------------ bounds --------------------------------- *)

\* Number of distinct rendered rasters the model distinguishes.
NumImages == 5
\* Number of distinct digests the model distinguishes (fewer than images:
\* the digest is taken from a 50x50 downsample, so it is many-to-one).
NumHashes == 3
\* Largest count a direct caller passes to generate_multiple_symbols.
MaxCount == 5
\* Longest point sequence handed to _add_decoration in SpecRender.
MaxPoints == 24
\* Largest number of symbol files present when the keyboard starts.
MaxFiles == 28
\* Longest text_input the keyboard model tracks.
MaxText == 2
\* Most events returned by one pygame.event.get() call.
MaxBatch == 1

(* -------------------------- program constants -------------------------- *)

\* generate_symbol: max_attempts = 100
max_attempts == 100
\* __main__: generate_multiple_symbols(28)
MainCount == 28
\* generate_multiple_symbols: the literal in f'.../28'
ProgressTotal == 28

Images == 1 .. NumImages
\* Lengths of a well-formed Shape: 2 points or more.
WellFormedLens == 2 .. MaxPoints

VARIABLES
    \* ---- symbols.py: batch driver and generator ----
    pc,                \* position of the batch run
    caller,            \* "main" (script) or "api" (direct call)
    num_symbols,       \* argument of generate_multiple_symbols
    i,                 \* the for-loop variable (0-based)
    attempts,          \* generate_symbol's local counter
    renders,           \* loop bodies run by the current generate_symbol call
    generated_hashes,  \* SymbolGenerator.generated_hashes
    candidate,         \* the image of the latest loop body (0: none yet)
    unique_ret,        \* what _is_unique returned for it
    returned,          \* images returned by generate_symbol, in order
    written,           \* image.save calls, in order: [index, image]
    raised,            \* exception caught by the driver ("none" if none)
    output,            \* lines printed, in order
    exit_code,         \* -1 while running, then the outcome of the run
    \* ---- the output folder, shared by both programs ----
    dir_exists,
    files,             \* indices N with a file symbol_N.png
    \* ---- SpecRender ----
    points_len,        \* len(points) of the shape being decorated
    decoration_type,
    render_result,     \* "pending", "ok" or the exception raised
    \* ---- keyboard.py ----
    kpc,               \* position of the keyboard program
    symbols,           \* SymbolKeyboard.symbols (its key set)
    key_to_symbol,     \* SymbolKeyboard.key_to_symbol
    pressed_keys,
    text_input,
    blitted,           \* letters whose symbol the last draw_keyboard drew
    kerror             \* exception that ended the keyboard ("none" if none)

genvars == <<pc, caller, num_symbols, i, attempts, renders, generated_hashes,
             candidate, unique_ret, returned, written, raised, output,
             exit_code>>
fsvars == <<dir_exists, files>>
rendervars == <<points_len, decoration_type, render_result>>
kbvars == <<kpc, symbols, key_to_symbol, pressed_keys, text_input, blitted,
            kerror>>
vars == <<genvars, fsvars, rendervars, kbvars>>

(* ------------------------- symbols.py: shapes -------------------------- *)

\* len(points) each family can return.
_generate_star == {2 * num_points : num_points \in 4 .. 9}
_generate_polygon == 3 .. 8
_generate_spiral == 12 .. 20
_generate_cross == {8}
_generate_wave_circle == 24 .. 36
_generate_diamond_pattern == {2 * num_points : num_points \in 3 .. 5}
_generate_zigzag == {num_segments + 1 : num_segments \in 6 .. 10}

\* random.choice over the seven families, then the family's own draw.
_generate_base_shape ==
    UNION {_generate_star, _generate_polygon, _generate_spiral,
           _generate_cross, _generate_wave_circle,
           _generate_diamond_pattern, _generate_zigzag}

decoration_types == {"dots", "lines", "none", "circle", "crosses", "inner_shape"}

\* random.randint(a, b) raises ValueError on an empty range.
randint_ok(a, b) == a <= b
\* random.sample(population, k) raises ValueError unless 0 <= k <= len.
sample_ok(n, k) == 0 <= k /\ k <= n

\* Outcome of _add_decoration on a shape of n points with decoration d:
\* "ok", or the exception that leaves the function.
_add_decoration(n, d) ==
    CASE d = "dots" -> "ok"
      [] d = "lines" ->
            IF ~randint_ok(3, n) THEN "ValueError"
            ELSE IF \A num_lines \in 3 .. n : sample_ok(n, num_lines)
                 THEN "ok" ELSE "ValueError"
      [] d = "circle" -> "ok"
      [] d = "crosses" ->
            IF sample_ok(n, n \div 2) THEN "ok" ELSE "ValueError"
      [] d = "inner_shape" -> "ok"
      [] OTHER -> "ok"

\* Outcomes of one generate-and-render of generate_symbol's loop body.
RenderOutcomes ==
    {_add_decoration(n, d) : n \in _generate_base_shape, d \in decoration_types}

(* --------------------- symbols.py: uniqueness guard -------------------- *)

\* _get_symbol_hash: the digest of the 50x50 downsample.  Deterministic and
\* many-to-one: rasters that differ only at full resolution share a digest.
_get_symbol_hash(image) == ((image - 1) % NumHashes) + 1

\* Faulty variants of _is_unique: one never consults the set, one never
\* inserts.
_is_unique_always(hashes, image) ==
    [ret |-> TRUE, hashes |-> hashes \cup {_get_symbol_hash(image)}]
_is_unique_no_insert(hashes, image) ==
    [ret |-> _get_symbol_hash(image) \notin hashes, hashes |-> hashes]
\* _is_unique: the value returned and generated_hashes afterwards.
_is_unique(hashes, image) ==
    LET symbol_hash == _get_symbol_hash(image) IN
    IF symbol_hash \in hashes
    THEN [ret |-> FALSE, hashes |-> hashes]
    ELSE [ret |-> TRUE, hashes |-> hashes \cup {symbol_hash}]

(* ----------------------- symbols.py: batch driver ---------------------- *)

Line(kind, index, total) == [kind |-> kind, index |-> index, total |-> total]

\* The script prints its banner, then (either caller) generate_multiple_symbols
\* makes the folder and constructs a SymbolGenerator.
Start ==
    /\ pc = "start"
    /\ output' = IF caller = "main"
                 THEN Append(output, Line("banner", 0, MainCount))
                 ELSE output
    /\ dir_exists' = TRUE
    /\ generated_hashes' = {}
    /\ i' = 0
    /\ pc' = "for"
    /\ UNCHANGED <<caller, num_symbols, attempts, renders, candidate,
                   unique_ret, returned, written, raised, exit_code, files>>
    /\ UNCHANGED <<rendervars, kbvars>>

\* for i in range(num_symbols): enter save_symbol -> generate_symbol, or
\* leave the loop when the range is used up.
ForNext ==
    /\ pc = "for"
    /\ IF i < num_symbols
       THEN /\ attempts' = 0
            /\ renders' = 0
            /\ pc' = "while"
       ELSE /\ pc' = "return"
            /\ UNCHANGED <<attempts, renders>>
    /\ UNCHANGED <<caller, num_symbols, i, generated_hashes, candidate,
                   unique_ret, returned, written, raised, output, exit_code>>
    /\ UNCHANGED <<fsvars, rendervars, kbvars>>

\* The while condition of generate_symbol.
\* WhileCond_le is the faulty variant with an off-by-one bound.
WhileCond_le == attempts <= max_attempts
WhileCond == attempts < max_attempts

\* The except branch of the driver: print the error with i+1, break.
\* Caught_zero_based is the faulty variant naming the 0-based loop variable.
Caught_zero_based(exc) ==
    /\ raised' = exc
    /\ output' = Append(output, Line("error", i, 0))
    /\ pc' = "return"
Caught(exc) ==
    /\ raised' = exc
    /\ output' = Append(output, Line("error", i + 1, 0))
    /\ pc' = "return"

\* The line printed after a successful save_symbol.
ProgressLine == Line("generated", i + 1, ProgressTotal)

\* The file name save_symbol is given: symbol_{i+1}.png.
\* FileIndex_zero_based is the faulty variant using the 0-based variable.
FileIndex_zero_based == i
FileIndex == i + 1

\* One body of generate_symbol's while loop: generate a shape, render it,
\* ask _is_unique.  On accept the image is returned, saved under i+1 and the
\* progress line printed; on reject attempts is incremented.
Attempt ==
    /\ pc = "while"
    /\ WhileCond
    /\ renders' = renders + 1
    /\ \E r \in RenderOutcomes :
         IF r # "ok"
         THEN /\ Caught(r)
              /\ UNCHANGED <<attempts, generated_hashes, candidate,
                             unique_ret, returned, written, i, files>>
         ELSE \E image \in Images :
                LET u == _is_unique(generated_hashes, image) IN
                /\ candidate' = image
                /\ unique_ret' = u.ret
                /\ generated_hashes' = u.hashes
                /\ IF u.ret
                   THEN /\ returned' = Append(returned, image)
                        /\ written' = Append(written,
                                [index |-> FileIndex, image |-> image])
                        /\ files' = files \cup {FileIndex}
                        /\ output' = Append(output, ProgressLine)
                        /\ i' = i + 1
                        /\ pc' = "for"
                        /\ UNCHANGED <<attempts, raised>>
                   ELSE /\ attempts' = attempts + 1
                        /\ UNCHANGED <<returned, written, files, output, i,
                                       pc, raised>>
    /\ UNCHANGED <<caller, num_symbols, exit_code, dir_exists>>
    /\ UNCHANGED <<rendervars, kbvars>>

\* The while loop ends without a return: generate_symbol raises, save_symbol
\* lets it through, the driver catches it.
Exhausted ==
    /\ pc = "while"
    /\ ~WhileCond
    /\ Caught("ExhaustedAttempts")
    /\ UNCHANGED <<caller, num_symbols, i, attempts, renders,
                   generated_hashes, candidate, unique_ret, returned,
                   written, exit_code>>
    /\ UNCHANGED <<fsvars, rendervars, kbvars>>

\* generate_multiple_symbols returns None; the script then prints "Done!"
\* and the interpreter exits with status 0.
Return ==
    /\ pc = "return"
    /\ output' = IF caller = "main"
                 THEN Append(output, Line("done", 0, 0))
                 ELSE output
    /\ exit_code' = 0
    /\ pc' = "exit"
    /\ UNCHANGED <<caller, num_symbols, i, attempts, renders,
                   generated_hashes, candidate, unique_ret, returned,
                   written, raised>>
    /\ UNCHANGED <<fsvars, rendervars, kbvars>>

(* ------------------------------ initial -------------------------------- *)

GenIdle ==
    /\ pc = "start"
    /\ i = 0
    /\ attempts = 0
    /\ renders = 0
    /\ generated_hashes = {}
    /\ candidate = 0
    /\ unique_ret = FALSE
    /\ returned = <<>>
    /\ written = <<>>
    /\ raised = "none"
    /\ output = <<>>
    /\ exit_code = -1

RenderIdle ==
    /\ points_len = 0
    /\ decoration_type = "none"
    /\ render_result = "pending"

KbIdle ==
    /\ kpc = "off"
    /\ symbols = {}
    /\ key_to_symbol = <<>>
    /\ pressed_keys = {}
    /\ text_input = <<>>
    /\ blitted = {}
    /\ kerror = "none"

\* A run of the script (count 28) or a direct call with any count.
Init ==
    /\ GenIdle
    /\ \/ caller = "main" /\ num_symbols = MainCount
       \/ caller = "api" /\ num_symbols \in 0 .. MaxCount
    /\ dir_exists = FALSE
    /\ files = {}
    /\ RenderIdle
    /\ KbIdle

Next ==
    \/ Start
    \/ ForNext
    \/ Attempt
    \/ Exhausted
    \/ Return

Spec == Init /\ [][Next]_vars

(* ------------------------- SpecRender: rendering ----------------------- *)

\* Lines 227-233 on one shape of points_len points: the stroke loop (one
\* line per point, to its successor modulo len(points); nothing in it can
\* raise for a non-empty list), then the decoration drawn by
\* random.choices.
Render ==
    /\ render_result = "pending"
    /\ \E d \in decoration_types :
         /\ decoration_type' = d
         /\ render_result' = _add_decoration(points_len, d)
    /\ UNCHANGED points_len
    /\ UNCHANGED <<genvars, fsvars, kbvars>>

\* Any well-formed shape, not yet rendered.
InitRender ==
    /\ GenIdle
    /\ caller = "api"
    /\ num_symbols = 0
    /\ dir_exists = FALSE
    /\ files = {}
    /\ points_len \in WellFormedLens
    /\ decoration_type = "none"
    /\ render_result = "pending"
    /\ KbIdle

NextRender == Render

SpecRender == InitRender /\ [][NextRender]_vars

(* ----------------------------- keyboard.py ----------------------------- *)

KEY_ROWS ==
    << <<"Q", "W", "E", "R", "T", "Y", "U", "I", "O", "P">>,
       <<"A", "S", "D", "F", "G", "H", "J", "K", "L">>,
       <<"Z", "X", "C", "V", "B", "N", "M">>,
       <<" ">> >>

\* for key in row: mapping[key] = symbol_index; symbol_index += 1
RECURSIVE MapRow(_, _, _)
MapRow(acc, row, k) ==
    IF k > Len(row) THEN acc
    ELSE MapRow([mapping |-> (row[k] :> acc.symbol_index) @@ acc.mapping,
                 symbol_index |-> acc.symbol_index + 1], row, k + 1)

RECURSIVE MapRows(_, _, _)
MapRows(acc, rows, r) ==
    IF r > Len(rows) THEN acc
    ELSE MapRows(MapRow(acc, rows[r], 1), rows, r + 1)

\* Faulty variant of _create_key_mapping: the space row is not excluded.
_create_key_mapping_all_rows ==
    MapRows([mapping |-> <<>>, symbol_index |-> 1], KEY_ROWS, 1).mapping
\* _create_key_mapping: every row but the last, indices from 1.
_create_key_mapping ==
    MapRows([mapping |-> <<>>, symbol_index |-> 1],
            SubSeq(KEY_ROWS, 1, Len(KEY_ROWS) - 1), 1).mapping

\* _load_symbols on an existing folder: one entry per symbol_N.png, keyed N.
_load_symbols == files

\* draw_keyboard: the letters whose symbol is blitted (symbol_index in
\* self.symbols); the others get their frame and letter only.
draw_keyboard(syms, mapping) ==
    {key \in DOMAIN mapping : mapping[key] \in syms}

\* keyboard = SymbolKeyboard(); keyboard.run(): the constructor loads the
\* symbols (FileNotFoundError without the folder), builds the mapping and
\* run() enters its loop.
KbMain ==
    /\ kpc = "off"
    /\ IF ~dir_exists
       THEN /\ kerror' = "FileNotFoundError"
            /\ kpc' = "crashed"
            /\ UNCHANGED <<symbols, key_to_symbol, pressed_keys, text_input,
                           blitted>>
       ELSE /\ symbols' = _load_symbols
            /\ key_to_symbol' = _create_key_mapping
            /\ pressed_keys' = {}
            /\ text_input' = <<>>
            /\ kpc' = "running"
            /\ UNCHANGED <<blitted, kerror>>
    /\ UNCHANGED <<genvars, fsvars, rendervars>>

\* The keys the model presses: [key, unicode] as pygame reports them.
EventKeys ==
    { [key |-> "K_SPACE", unicode |-> " "],
      [key |-> "K_q", unicode |-> "q"],
      [key |-> "K_q", unicode |-> "Q"],
      [key |-> "K_1", unicode |-> "1"],
      [key |-> "K_BACKSPACE", unicode |-> "BS"],
      [key |-> "K_ESCAPE", unicode |-> "ESC"] }

Events ==
    {[type |-> "QUIT", key |-> "", unicode |-> ""]}
    \cup {[type |-> t, key |-> k.key, unicode |-> k.unicode] :
            t \in {"KEYDOWN", "KEYUP"}, k \in EventKeys}

\* str.upper() on the characters of EventKeys.
upper(c) == IF c = "q" THEN "Q" ELSE c

\* set.remove: KeyError when the element is absent.
SetRemove(s, key) ==
    IF key \in s.pressed_keys
    THEN [s EXCEPT !.pressed_keys = s.pressed_keys \ {key}]
    ELSE [s EXCEPT !.error = "KeyError"]

\* The body of the for loop of run() for one event.
HandleEvent(s, event) ==
    IF event.type = "QUIT" THEN [s EXCEPT !.running = FALSE]
    ELSE IF event.type = "KEYDOWN" THEN
        IF event.key = "K_SPACE"
        THEN [s EXCEPT !.text_input = Append(s.text_input, " "),
                       !.pressed_keys = s.pressed_keys \cup {" "}]
        ELSE IF upper(event.unicode) \in DOMAIN key_to_symbol
        THEN [s EXCEPT !.text_input = Append(s.text_input, event.unicode),
                       !.pressed_keys =
                           s.pressed_keys \cup {upper(event.unicode)}]
        ELSE IF event.key = "K_BACKSPACE"
        THEN [s EXCEPT !.text_input =
                           SubSeq(s.text_input, 1, Len(s.text_input) - 1)]
        ELSE IF event.key = "K_ESCAPE"
        THEN [s EXCEPT !.running = FALSE]
        ELSE s
    ELSE IF event.type = "KEYUP" THEN
        IF event.key = "K_SPACE" THEN SetRemove(s, " ")
        ELSE IF upper(event.unicode) \in DOMAIN key_to_symbol
        THEN SetRemove(s, upper(event.unicode))
        ELSE s
    ELSE s

\* for event in pygame.event.get(): an exception leaves the loop at once.
RECURSIVE HandleEvents(_, _, _)
HandleEvents(s, batch, k) ==
    IF k > Len(batch) \/ s.error # "none" THEN s
    ELSE HandleEvents(HandleEvent(s, batch[k]), batch, k + 1)

Batches == UNION {[1 .. n -> Events] : n \in 0 .. MaxBatch}

\* One pass of the while loop of run(): handle the pending events, draw,
\* tick; leave the loop when running was cleared.
Frame ==
    /\ kpc = "running"
    /\ \E batch \in Batches :
         LET s == HandleEvents([text_input |-> text_input,
                                pressed_keys |-> pressed_keys,
                                running |-> TRUE,
                                error |-> "none"], batch, 1) IN
         /\ Len(s.text_input) <= MaxText
         /\ text_input' = s.text_input
         /\ pressed_keys' = s.pressed_keys
         /\ IF s.error # "none"
            THEN /\ kerror' = s.error
                 /\ kpc' = "crashed"
                 /\ UNCHANGED blitted
            ELSE /\ blitted' = draw_keyboard(symbols, key_to_symbol)
                 /\ kpc' = IF s.running THEN "running" ELSE "quit"
                 /\ UNCHANGED kerror
    /\ UNCHANGED <<symbols, key_to_symbol>>
    /\ UNCHANGED <<genvars, fsvars, rendervars>>

\* The output folder as the batch driver leaves it: absent, or holding the
\* files 1..k it wrote before it finished or stopped.
InitKeyboard ==
    /\ GenIdle
    /\ caller = "api"
    /\ num_symbols = 0
    /\ RenderIdle
    /\ KbIdle
    /\ \/ dir_exists = FALSE /\ files = {}
       \/ dir_exists = TRUE /\ \E k \in 0 .. MaxFiles : files = 1 .. k

NextKeyboard ==
    \/ KbMain
    \/ Frame

SpecKeyboard == InitKeyboard /\ [][NextKeyboard]_vars

(* ------------------------------- claims -------------------------------- *)

Range(seq) == {seq[j] : j \in 1 .. Len(seq)}

\* C1: within one SymbolGenerator, the hashes of the images generate_symbol
\* has returned are pairwise distinct.
C1_ReturnedHashesDistinct ==
    \A a, b \in 1 .. Len(returned) :
        a # b => _get_symbol_hash(returned[a]) # _get_symbol_hash(returned[b])

\* Two images were returned and a later candidate, a raster not returned
\* before, was rejected for sharing a digest with one of them.
C1_Witness ==
    /\ Len(returned) >= 2
    /\ pc = "while"
    /\ attempts >= 1
    /\ candidate \notin Range(returned)
    /\ ~unique_ret

\* C2: generate_symbol raises the exhausted-attempts failure only after
\* exactly max_attempts loop bodies, all of them rejects, and returns no
\* image in that call; inside the loop the bodies run never exceed
\* max_attempts.
C2_ExactlyMaxAttempts ==
    /\ pc = "while" => (renders = attempts /\ renders <= max_attempts)
    /\ raised = "ExhaustedAttempts" =>
          /\ renders = max_attempts
          /\ attempts = max_attempts
          /\ ~unique_ret
          /\ Len(returned) = i
          /\ \A j \in 1 .. Len(written) : written[j].index # i + 1

\* The failure was raised, after max_attempts rejected candidates.
C2_Witness ==
    /\ raised = "ExhaustedAttempts"
    /\ renders = max_attempts
    /\ Cardinality(generated_hashes) < NumHashes

\* C3: a step that runs _is_unique on a candidate with hash h: if h is not
\* in generated_hashes it returns True and the set becomes the old set plus
\* h; otherwise it returns False and the set is unchanged.
C3_IsUniqueFrame ==
    [][(pc = "while" /\ renders' = renders + 1 /\ raised' = raised) =>
         LET h == _get_symbol_hash(candidate') IN
         IF h \notin generated_hashes
         THEN unique_ret' /\ generated_hashes' = generated_hashes \cup {h}
         ELSE ~unique_ret' /\ generated_hashes' = generated_hashes]_vars

\* A candidate was rejected while the set already held two hashes.
C3_Witness ==
    /\ pc = "while"
    /\ attempts >= 2
    /\ ~unique_ret
    /\ _get_symbol_hash(candidate) \in generated_hashes
    /\ Cardinality(generated_hashes) = 2

\* C4: when the k-th symbol (k = i+1) fails with exhausted attempts, the
\* driver has written exactly the files 1..k-1, each once, writes nothing
\* for k or later, keeps what it wrote, and reports the failure with k.
C4_PartialFailure ==
    raised = "ExhaustedAttempts" =>
        LET k == i + 1 IN
        /\ 1 <= k /\ k <= num_symbols
        /\ files = 1 .. (k - 1)
        /\ Len(written) = k - 1
        /\ \A j \in 1 .. Len(written) : written[j].index = j
        /\ output[Len(output) - (IF pc = "exit" /\ caller = "main"
                                  THEN 1 ELSE 0)] = Line("error", k, 0)
        /\ \A j \in 1 .. Len(output) :
              output[j].kind = "generated" => output[j].index < k

\* count = 5, the 3rd symbol exhausted its attempts, the run is over.
C4_Witness ==
    /\ raised = "ExhaustedAttempts"
    /\ num_symbols = 5
    /\ i + 1 = 3
    /\ pc = "exit"
    /\ files = {1, 2}

\* C5: when the driver completes without a failure, the indices written are
\* exactly 1..num_symbols, each once, and the j-th accepted image is the one
\* written under index j.
C5_IndexContiguity ==
    (pc \in {"return", "exit"} /\ raised = "none") =>
        /\ files = 1 .. num_symbols
        /\ Len(written) = num_symbols
        /\ Len(returned) = num_symbols
        /\ \A j \in 1 .. Len(written) :
              written[j] = [index |-> j, image |-> returned[j]]

\* A batch of three symbols completed.
C5_Witness ==
    /\ pc = "exit"
    /\ raised = "none"
    /\ num_symbols = 3
    /\ Len(written) = 3

Letters ==
    UNION {Range(KEY_ROWS[r]) : r \in 1 .. Len(KEY_ROWS) - 1}

\* Position of a letter in the row order Q..P, A..L, Z..M.
RowOrderIndex(key) ==
    CHOOSE n \in 1 .. 26 :
        \E r \in 1 .. 3 : \E c \in 1 .. Len(KEY_ROWS[r]) :
            /\ KEY_ROWS[r][c] = key
            /\ n = c + (IF r > 1 THEN Len(KEY_ROWS[1]) ELSE 0)
                     + (IF r > 2 THEN Len(KEY_ROWS[2]) ELSE 0)

\* C6: once built, key_to_symbol maps exactly the 26 letters, one-to-one
\* onto 1..26 in row order (Q = 1 ... M = 26), and has no entry for space.
C6_KeyMappingInjective ==
    kpc \in {"running", "quit"} =>
        /\ DOMAIN key_to_symbol = Letters
        /\ Cardinality(Letters) = 26
        /\ \A a, b \in Letters :
              a # b => key_to_symbol[a] # key_to_symbol[b]
        /\ {key_to_symbol[a] : a \in Letters} = 1 .. 26
        /\ \A a \in Letters : key_to_symbol[a] = RowOrderIndex(a)
        /\ key_to_symbol["Q"] = 1 /\ key_to_symbol["M"] = 26
        /\ " " \notin DOMAIN key_to_symbol

\* The keyboard is running on a full folder, the mapping built, and both a
\* letter and the space bar are held down.
C6_Witness ==
    /\ kpc = "running"
    /\ symbols = 1 .. 28
    /\ pressed_keys = {"Q", " "}

\* C7 (as claimed): the keyboard reaches its event loop only if the folder
\* exists and every index of the Key Mapping has an image; without the
\* folder it stops with an error.
C7_FailsFastOnMissingAssets ==
    /\ (kpc # "off" /\ ~dir_exists) => (kpc = "crashed" /\ kerror # "none")
    /\ kpc \in {"running", "quit"} =>
          \A key \in DOMAIN key_to_symbol : key_to_symbol[key] \in symbols

\* C8 (as claimed): after an exhausted-attempts failure the run has printed
\* the failure, written nothing further, and ends with a non-zero outcome
\* without reporting completion.
C8_FailureOutcome ==
    (pc = "exit" /\ raised = "ExhaustedAttempts") =>
        /\ \E j \in 1 .. Len(output) : output[j] = Line("error", i + 1, 0)
        /\ Len(written) = i
        /\ exit_code # 0
        /\ \A j \in 1 .. Len(output) : output[j].kind # "done"

\* C9 (as claimed): the progress line of the j-th generated item reads
\* j/total with total the requested count.
C9_ProgressTotalIsCount ==
    \A j \in 1 .. Len(output) :
        output[j].kind = "generated" =>
            /\ output[j].total = num_symbols
            /\ \E n \in 1 .. Len(written) : written[n].index = output[j].index

C11_KeyUpNeverFails ==
    /\ kerror # "KeyError"
    /\ kpc = "crashed" => ~dir_exists

====
